---- MODULE Spec2Model ----
(***************************************************************************)
(* PokeAPIClient (src/src/pokeapi_sdk/client.py): the request helper, the  *)
(* two generators with their consumer, and the lookup methods, one call at *)
(* a time against a remote that answers every GET with a success or one   *)
(* of the failures of the requests library.                                *)
(***************************************************************************)
EXTENDS Integers, Sequences, FiniteSets, TLC

VARIABLES
    op,        \* the method that was called
    args,      \* its arguments
    remote,    \* what the remote holds for the resources the call reads
    pc,        \* position in the method's body
    loc,       \* the body's local variables, by their names in the source
    requests,  \* every GET issued so far, with the remote's answer
    cpc,       \* the caller: for a generator, the consumer of the iterator
    received   \* the elements the generator has yielded to the consumer

vars == <<op, args, remote, pc, loc, requests, cpc, received>>

NoneVal == "None"

Min(a, b) == IF a <= b THEN a ELSE b

Range(s) == {s[i] : i \in DOMAIN s}

\* ---------------------------------------------------------------- bounds

MaxCount == 5
MaxPageSize == 3

\* -------------------------------------------------- the request helper

\* What the remote (or the network) does with one GET.
Answers == {"ok", "not_found", "server_error", "transport", "malformed"}

Failures == Answers \ {"ok"}

\* The exception _make_request lets out of its try block for an answer:
\* session.get raises on a transport failure, raise_for_status on a 4xx/5xx
\* status, response.json on a body that is not JSON.
RaisedBy(answer) ==
    CASE answer = "transport" -> "ConnectionError"
      [] answer \in {"not_found", "server_error"} -> "HTTPError"
      [] answer = "malformed" -> "JSONDecodeError"
      [] OTHER -> NoneVal

\* One GET: the log entry.  The helper has no loop: one call, one GET.
Get(endpoint, params, answer) ==
    [endpoint |-> endpoint, params |-> params, answer |-> answer]

\* ------------------------------------------------------------ the remote

\* A paginated collection's page for limit/offset query parameters.
RemotePage(items, limit, offset) ==
    [count |-> Len(items),
     results |-> SubSeq(items, offset + 1, Min(offset + limit, Len(items)))]

\* ------------------------------------------- get_all_resource_generator

\* Slips of the line below: the offset left where it is, or moved by one.
AdvanceOffsetStuck(offset, limit) == offset
AdvanceOffsetByOne(offset, limit) == offset + 1

\* offset += limit
AdvanceOffset(offset, limit) == offset + limit

\* A slip of the line below: stopping at the first page that is not full.
PageEndsStreamShort(results, limit) == Len(results) < limit

\* if not results: break
PageEndsStream(results, limit) == results = <<>>

\* Cap on the page requests of one run: more than any run over MaxCount
\* summaries needs.
RequestCap == MaxCount + 2

InitStream ==
    /\ op = "get_all_resource_generator"
    /\ \E limit \in 1..MaxPageSize :
           args = [resource_name |-> "pokemon", limit |-> limit]
    /\ \E count \in 0..MaxCount :
           remote = [items |-> [i \in 1..count |-> i]]
    /\ pc = "created"
    /\ loc = [offset |-> 0, results |-> <<>>, idx |-> 0]
    /\ requests = <<>>
    /\ cpc = "idle"
    /\ received = <<>>

\* The consumer calls next() on the iterator: the body runs from where it
\* was suspended (its start, or the yield inside the for loop).
StreamNext ==
    /\ op = "get_all_resource_generator"
    /\ cpc = "idle"
    /\ pc \in {"created", "yielded"}
    /\ cpc' = "in_next"
    /\ IF pc = "created"
          THEN /\ pc' = "fetch"
               /\ loc' = [loc EXCEPT !.offset = 0]
          ELSE /\ pc' = "loop"
               /\ loc' = [loc EXCEPT !.idx = @ + 1]
    /\ UNCHANGED <<op, args, remote, requests, received>>

\* page = self.get_paginated_resource(...); results = page.get("results", [])
StreamFetch ==
    /\ op = "get_all_resource_generator"
    /\ pc = "fetch"
    /\ Len(requests) < RequestCap
    /\ \E answer \in Answers :
        /\ requests' = Append(requests,
               Get(args.resource_name,
                   [limit |-> args.limit, offset |-> loc.offset], answer))
        /\ IF answer # "ok"
              THEN /\ pc' = "raised"
                   /\ cpc' = "error"
                   /\ loc' = loc
              ELSE LET page == RemotePage(remote.items, args.limit, loc.offset)
                       results == page.results
                   IN  IF PageEndsStream(results, args.limit)
                          THEN /\ pc' = "done"
                               /\ cpc' = "exhausted"
                               /\ loc' = [loc EXCEPT !.results = results]
                          ELSE /\ pc' = "loop"
                               /\ cpc' = cpc
                               /\ loc' = [loc EXCEPT !.results = results,
                                                     !.idx = 1]
    /\ UNCHANGED <<op, args, remote, received>>

\* for item in results: yield item      and, after the loop, offset += limit
StreamLoop ==
    /\ op = "get_all_resource_generator"
    /\ pc = "loop"
    /\ IF loc.idx <= Len(loc.results)
          THEN /\ received' = Append(received, loc.results[loc.idx])
               /\ pc' = "yielded"
               /\ cpc' = "idle"
               /\ loc' = loc
          ELSE /\ loc' = [loc EXCEPT
                            !.offset = AdvanceOffset(loc.offset, args.limit)]
               /\ pc' = "fetch"
               /\ UNCHANGED <<cpc, received>>
    /\ UNCHANGED <<op, args, remote, requests>>

\* The consumer leaves its loop (break) and drops the iterator.
StreamStop ==
    /\ op = "get_all_resource_generator"
    /\ cpc = "idle"
    /\ cpc' = "stopped"
    /\ UNCHANGED <<op, args, remote, pc, loc, requests, received>>

\* next() on an iterator that has returned or raised: StopIteration, no code
\* of the body runs.
StreamNextFinished ==
    /\ op = "get_all_resource_generator"
    /\ cpc \in {"exhausted", "error"}
    /\ pc \in {"done", "raised"}
    /\ cpc' = "exhausted"
    /\ UNCHANGED <<op, args, remote, pc, loc, requests, received>>

NextStream ==
    \/ StreamNext
    \/ StreamFetch
    \/ StreamLoop
    \/ StreamStop
    \/ StreamNextFinished

SpecStream == InitStream /\ [][NextStream]_vars

\* The scheduling of a generator: inside next() the body runs to its next
\* yield, return or raise.  The consumer is free to stop.
FairStream ==
    /\ InitStream
    /\ [][NextStream]_vars
    /\ WF_vars(StreamFetch)
    /\ WF_vars(StreamLoop)
    /\ WF_vars(StreamNext)

\* ------------------------------------------------- dictionaries, strings

\* dict.get(key, default)
DictGet(d, key, default) == IF key \in DOMAIN d THEN d[key] ELSE default

\* str.lower(), on the identifiers the calls below are made with
Lower(s) ==
    CASE s = "GRASS" -> "grass"
      [] s = "Pikachu" -> "pikachu"
      [] OTHER -> s

\* ----------------------------------------------- the remote's resources

MaxTypeMembers == 3

Pokedex ==
    { [name |-> "bulbasaur", id |-> 1], [name |-> "charmander", id |-> 4],
      [name |-> "caterpie", id |-> 10], [name |-> "pikachu", id |-> 25] }

DigitChar == <<"0", "1", "2", "3", "4", "5", "6", "7", "8", "9">>

RECURSIVE Decimal(_)
Decimal(n) ==
    IF n < 10 THEN <<DigitChar[n + 1]>>
    ELSE Decimal(n \div 10) \o <<DigitChar[(n % 10) + 1]>>

BaseUrl ==
    <<"h", "t", "t", "p", "s", ":", "/", "/", "p", "o", "k", "e", "a", "p",
      "i", ".", "c", "o", "/", "a", "p", "i", "/", "v", "2">>

PokemonPath == <<"/", "p", "o", "k", "e", "m", "o", "n", "/">>

SpeciesPath ==
    <<"/", "p", "o", "k", "e", "m", "o", "n", "-", "s", "p", "e", "c", "i",
      "e", "s", "/">>

\* A resource summary {name, url}: the url ends "/<id>/".
Summary(p, path) ==
    [name |-> p.name, url |-> BaseUrl \o path \o Decimal(p.id) \o <<"/">>]

\* The sequences of length at most n over S without a repeated element.
RECURSIVE DistinctSeqs(_, _)
DistinctSeqs(S, n) ==
    IF n = 0 THEN {<<>>}
    ELSE LET shorter == DistinctSeqs(S, n - 1)
         IN  shorter \cup
             {Append(q, x) : <<q, x>> \in
                  {<<q, x>> \in shorter \X S :
                       Len(q) = n - 1 /\ x \notin Range(q)}}

\* A type record's member list: {slot, pokemon: summary} entries.
TypeMembers(ps) ==
    [i \in 1..Len(ps) |-> [slot |-> 1, pokemon |-> Summary(ps[i], PokemonPath)]]

\* What the remote answers for GET type/<name>: the type's record, and for
\* the empty name the collection listing, which has no "pokemon" field.
TypeResource(name) ==
    IF name = "" THEN [count |-> 1, results |-> <<>>]
    ELSE [name |-> name, pokemon |-> remote.type_members]

\* -------------------------------------------------- find_pokemon_by_type

\* A slip of the line below: the membership entry itself is yielded.
YieldedOfEntryWhole(pokemon_entry) == pokemon_entry

\* yield pokemon_entry['pokemon']
YieldedOfEntry(pokemon_entry) == pokemon_entry.pokemon

TypeNames == {"grass", "GRASS", ""}

InitType ==
    /\ op = "find_pokemon_by_type"
    /\ \E type_name \in TypeNames : args = [type_name |-> type_name]
    /\ \E ps \in DistinctSeqs(Pokedex, MaxTypeMembers) :
           remote = [type_members |-> TypeMembers(ps)]
    /\ pc = "created"
    /\ loc = [pokemon_list |-> <<>>, idx |-> 0]
    /\ requests = <<>>
    /\ cpc = "idle"
    /\ received = <<>>

\* The consumer calls next(): the body starts, or resumes after its yield.
TypeNext ==
    /\ op = "find_pokemon_by_type"
    /\ cpc = "idle"
    /\ pc \in {"created", "yielded"}
    /\ cpc' = "in_next"
    /\ IF pc = "created"
          THEN /\ pc' = "fetch"
               /\ loc' = loc
          ELSE /\ pc' = "loop"
               /\ loc' = [loc EXCEPT !.idx = @ + 1]
    /\ UNCHANGED <<op, args, remote, requests, received>>

\* type_data = self._make_request(...); pokemon_list = type_data.get(...)
TypeFetch ==
    /\ op = "find_pokemon_by_type"
    /\ pc = "fetch"
    /\ \E answer \in Answers :
        /\ requests' = Append(requests,
               Get(<<"type", Lower(args.type_name)>>, NoneVal, answer))
        /\ IF answer # "ok"
              THEN /\ pc' = "raised"
                   /\ cpc' = "error"
                   /\ loc' = loc
              ELSE LET type_data == TypeResource(Lower(args.type_name))
                   IN  /\ pc' = "loop"
                       /\ cpc' = cpc
                       /\ loc' = [pokemon_list |->
                                      DictGet(type_data, "pokemon", <<>>),
                                  idx |-> 1]
    /\ UNCHANGED <<op, args, remote, received>>

\* for pokemon_entry in pokemon_list: yield pokemon_entry['pokemon']
TypeLoop ==
    /\ op = "find_pokemon_by_type"
    /\ pc = "loop"
    /\ IF loc.idx <= Len(loc.pokemon_list)
          THEN /\ received' =
                      Append(received, YieldedOfEntry(loc.pokemon_list[loc.idx]))
               /\ pc' = "yielded"
               /\ cpc' = "idle"
          ELSE /\ pc' = "done"
               /\ cpc' = "exhausted"
               /\ received' = received
    /\ UNCHANGED <<op, args, remote, loc, requests>>

\* The consumer takes no further element.
TypeStop ==
    /\ op = "find_pokemon_by_type"
    /\ cpc = "idle"
    /\ cpc' = "stopped"
    /\ UNCHANGED <<op, args, remote, pc, loc, requests, received>>

\* next() on an iterator that has returned or raised: StopIteration.
TypeNextFinished ==
    /\ op = "find_pokemon_by_type"
    /\ cpc \in {"exhausted", "error"}
    /\ pc \in {"done", "raised"}
    /\ cpc' = "exhausted"
    /\ UNCHANGED <<op, args, remote, pc, loc, requests, received>>

NextType ==
    \/ TypeNext
    \/ TypeFetch
    \/ TypeLoop
    \/ TypeStop
    \/ TypeNextFinished

SpecType == InitType /\ [][NextType]_vars

\* ------------------------------------------------------- get_flavor_text

MaxEntries == 3
MaxTextLen == 2

\* What a method returns: a value, or None.
Value(v) == [kind |-> "value", val |-> v]
None == [kind |-> "None"]

Languages == {"en", "ja"}
Versions == {"sword", "red"}
FlavorChars == {"a", "\n", "\f"}

\* The strings over S of length at most n, as sequences of characters.
RECURSIVE Strings(_, _)
Strings(S, n) ==
    IF n = 0 THEN {<<>>}
    ELSE LET shorter == Strings(S, n - 1)
         IN  shorter \cup {Append(q, x) : <<q, x>> \in shorter \X S}

\* The species records of the remote: entry i's text is the digit i followed
\* by a text over FlavorChars, so that two entries never carry the same text.
FlavorEntries(keys, text) ==
    [i \in 1..Len(keys) |->
        [flavor_text |-> <<DigitChar[i + 1]>> \o text,
         language |-> [name |-> keys[i][1]],
         version |-> [name |-> keys[i][2]]]]

RECURSIVE Tuples(_, _)
Tuples(S, n) ==
    IF n = 0 THEN {<<>>}
    ELSE {Append(q, x) : <<q, x>> \in Tuples(S, n - 1) \X S}

SpeciesRecords ==
    {[name |-> "pikachu"]} \cup
    {[name |-> "pikachu", flavor_text_entries |-> FlavorEntries(keys, text)] :
        <<keys, text>> \in
            (UNION {Tuples(Languages \X Versions, n) : n \in 0..MaxEntries})
            \X Strings(FlavorChars, MaxTextLen)}

\* str.replace(old, new) for one-character old and new
Replace(text, old, new) ==
    [i \in 1..Len(text) |-> IF text[i] = old THEN new ELSE text[i]]

\* A slip of the line below: form feeds are left in.
CleanFlavorTextNewlineOnly(text) == Replace(text, "\n", " ")

\* entry['flavor_text'].replace('\n', ' ').replace('\f', ' ')
CleanFlavorText(text) == Replace(Replace(text, "\n", " "), "\f", " ")

\* entry['language']['name'] == language and entry['version']['name'] == version
EntryMatches(entry, version, language) ==
    entry.language.name = language /\ entry.version.name = version

\* for entry in ...: if <match>: return <cleaned text>      return None
RECURSIVE ScanFlavorEntries(_, _, _, _)
ScanFlavorEntries(entries, i, version, language) ==
    IF i > Len(entries) THEN None
    ELSE IF EntryMatches(entries[i], version, language)
         THEN Value(CleanFlavorText(entries[i].flavor_text))
         ELSE ScanFlavorEntries(entries, i + 1, version, language)

InitFlavor ==
    /\ op = "get_flavor_text"
    /\ \E version \in Versions, language \in Languages :
           args = [pokemon_identifier |-> "Pikachu", version |-> version,
                   language |-> language]
    /\ \E rec \in SpeciesRecords : remote = [species |-> rec]
    /\ pc = "called"
    /\ loc = [result |-> None]
    /\ requests = <<>>
    /\ cpc = "calling"
    /\ received = <<>>

\* The whole method: one GET, the scan, the return.
FlavorCall ==
    /\ op = "get_flavor_text"
    /\ pc = "called"
    /\ \E answer \in Answers :
        /\ requests' = Append(requests,
               Get(<<"pokemon-species", Lower(args.pokemon_identifier)>>,
                   NoneVal, answer))
        /\ IF answer # "ok"
              THEN /\ pc' = "raised"
                   /\ cpc' = "error"
                   /\ loc' = loc
              ELSE LET pokemon_species_data == remote.species
                       entries == DictGet(pokemon_species_data,
                                          "flavor_text_entries", <<>>)
                   IN  /\ pc' = "returned"
                       /\ cpc' = "returned"
                       /\ loc' = [result |->
                               ScanFlavorEntries(entries, 1, args.version,
                                                 args.language)]
    /\ UNCHANGED <<op, args, remote, received>>

NextFlavor == FlavorCall

SpecFlavor == InitFlavor /\ [][NextFlavor]_vars

\* --------------------------------------------------- get_evolution_chain

MaxNodes == 4

SpeciesNames ==
    <<"eevee", "vaporeon", "jolteon", "flareon", "espeon", "umbreon">>

\* The trees on nodes 1..n, node 1 the root: par[i] < i is the parent of i,
\* and a node's children stand in evolves_to in ascending order.
Trees ==
    UNION {[2..n -> 1..n] : n \in 1..MaxNodes}

IsTree(par) == \A i \in DOMAIN par : par[i] < i

TreeNodes(par) == {1} \cup DOMAIN par

\* The elements of a set of numbers in ascending order.
RECURSIVE Ascending(_)
Ascending(S) ==
    IF S = {} THEN <<>>
    ELSE LET least == CHOOSE x \in S : \A y \in S : x <= y
         IN  <<least>> \o Ascending(S \ {least})

ChildrenOf(par, i) == Ascending({c \in DOMAIN par : par[c] = i})

\* The remote's evolution chain node {species: {name}, evolves_to: [...]};
\* with_key = FALSE leaves evolves_to out of the leaves.
RECURSIVE ChainLink(_, _, _)
ChainLink(par, i, with_key) ==
    LET cs == ChildrenOf(par, i)
        node == [species |-> [name |-> SpeciesNames[i]]]
    IN  IF cs = <<>> /\ ~with_key THEN node
        ELSE [species |-> node.species,
              evolves_to |-> [k \in 1..Len(cs) |-> ChainLink(par, cs[k], with_key)]]

EvolutionChainUrl ==
    BaseUrl \o <<"/", "e", "v", "o", "l", "u", "t", "i", "o", "n", "-", "c",
                 "h", "a", "i", "n", "/", "6", "7", "/">>

\* A slip of _traverse_chain: the tree is listed level by level.
RECURSIVE BreadthFirst(_, _)
BreadthFirst(chain, queue) ==
    IF queue = <<>> THEN chain
    ELSE BreadthFirst(Append(chain, Head(queue).species.name),
                      Tail(queue) \o DictGet(Head(queue), "evolves_to", <<>>))

TraverseChainBreadthFirst(chain, chain_link) ==
    BreadthFirst(chain, <<chain_link>>)

\* _traverse_chain: append the name, then recurse into evolves_to in order.
\* chain is the accumulator list the closure appends to.
RECURSIVE TraverseChain(_, _)
RECURSIVE TraverseLinks(_, _, _)
TraverseLinks(chain, links, k) ==
    IF k > Len(links) THEN chain
    ELSE TraverseLinks(TraverseChain(chain, links[k]), links, k + 1)

TraverseChain(chain, chain_link) ==
    LET appended == Append(chain, chain_link.species.name)
    IN  IF "evolves_to" \in DOMAIN chain_link /\ chain_link.evolves_to # <<>>
           THEN TraverseLinks(appended, chain_link.evolves_to, 1)
           ELSE appended

\* except requests.exceptions.HTTPError: return None
HandlerCatches(exception) == exception = "HTTPError"

InitEvo ==
    /\ op = "get_evolution_chain"
    /\ args = [pokemon_identifier |-> "eevee"]
    /\ \E par \in Trees, with_key \in BOOLEAN :
           /\ IsTree(par)
           /\ remote = [par |-> par,
                        species |-> [name |-> "eevee",
                                     evolution_chain |-> [url |-> EvolutionChainUrl]],
                        chain_data |-> [id |-> 67,
                                        chain |-> ChainLink(par, 1, with_key)]]
    /\ pc = "called"
    /\ loc = [result |-> None]
    /\ requests = <<>>
    /\ cpc = "calling"
    /\ received = <<>>

\* What the try block does with a GET that failed.
EvoFailed(answer) ==
    IF HandlerCatches(RaisedBy(answer))
       THEN /\ pc' = "returned"
            /\ cpc' = "returned"
            /\ loc' = [result |-> None]
       ELSE /\ pc' = "raised"
            /\ cpc' = "error"
            /\ loc' = loc

\* species_data = self._make_request(f"pokemon-species/...")
EvoSpecies ==
    /\ op = "get_evolution_chain"
    /\ pc = "called"
    /\ \E answer \in Answers :
        /\ requests' = Append(requests,
               Get(<<"pokemon-species", Lower(args.pokemon_identifier)>>,
                   NoneVal, answer))
        /\ IF answer # "ok"
              THEN EvoFailed(answer)
              ELSE /\ pc' = "species_fetched"
                   /\ cpc' = cpc
                   /\ loc' = [result |-> None,
                              evolution_chain_url |->
                                  remote.species.evolution_chain.url]
    /\ UNCHANGED <<op, args, remote, received>>

\* chain_data = self._make_request_to_url(evolution_chain_url), the
\* traversal and the return.
EvoChain ==
    /\ op = "get_evolution_chain"
    /\ pc = "species_fetched"
    /\ \E answer \in Answers :
        /\ requests' = Append(requests,
               Get(loc.evolution_chain_url, NoneVal, answer))
        /\ IF answer # "ok"
              THEN EvoFailed(answer)
              ELSE LET chain_data == remote.chain_data
                   IN  /\ pc' = "returned"
                       /\ cpc' = "returned"
                       /\ loc' = [result |->
                                     Value(TraverseChain(<<>>, chain_data.chain))]
    /\ UNCHANGED <<op, args, remote, received>>

NextEvo ==
    \/ EvoSpecies
    \/ EvoChain

SpecEvo == InitEvo /\ [][NextEvo]_vars

\* --------------------------------------------- get_pokemon_by_generation

MaxMembers == 3
MaxOffset == 4
MaxLimit == 2

\* str.split(sep), on a string held as its sequence of characters
RECURSIVE SplitFrom(_, _, _, _, _)
SplitFrom(s, i, sep, current, parts) ==
    IF i > Len(s) THEN Append(parts, current)
    ELSE IF s[i] = sep
         THEN SplitFrom(s, i + 1, sep, <<>>, Append(parts, current))
         ELSE SplitFrom(s, i + 1, sep, Append(current, s[i]), parts)

Split(s, sep) == SplitFrom(s, 1, sep, <<>>, <<>>)

\* seq[-k]
FromEnd(seq, k) == seq[Len(seq) - k + 1]

\* int(text) for a text of decimal digits
RECURSIVE ParseInt(_)
ParseInt(text) ==
    LET digit(c) == CHOOSE d \in 0..9 : DigitChar[d + 1] = c
    IN  IF Len(text) = 1 THEN digit(text[1])
        ELSE 10 * ParseInt(SubSeq(text, 1, Len(text) - 1))
             + digit(text[Len(text)])

\* key=lambda p: int(p['url'].split('/')[-2])
SortKey(p) == ParseInt(FromEnd(Split(p.url, "/"), 2))

\* list.sort(key=...): stable, ascending by key
RECURSIVE InsertByKey(_, _)
InsertByKey(sorted, x) ==
    IF sorted = <<>> THEN <<x>>
    ELSE IF SortKey(sorted[Len(sorted)]) <= SortKey(x) THEN Append(sorted, x)
    ELSE Append(InsertByKey(SubSeq(sorted, 1, Len(sorted) - 1), x),
                sorted[Len(sorted)])

RECURSIVE SortFrom(_, _, _)
SortFrom(list, i, sorted) ==
    IF i > Len(list) THEN sorted
    ELSE SortFrom(list, i + 1, InsertByKey(sorted, list[i]))

\* A slip of the line below: the list is left in the remote's order.
SortByUrlIdLeftAsIs(list) == list

\* pokemon_species_list.sort(key=lambda p: int(p['url'].split('/')[-2]))
SortByUrlId(list) == SortFrom(list, 1, <<>>)

\* A slip of the line below: the condition is dropped.
KeepsMemberAlways(p, type_pokemon_names) == TRUE

\* [p for p in pokemon_species_list if p['name'] in type_pokemon_names]
KeepsMember(p, type_pokemon_names) == p.name \in type_pokemon_names

RECURSIVE FilterByName(_, _, _)
FilterByName(list, i, type_pokemon_names) ==
    IF i > Len(list) THEN <<>>
    ELSE (IF KeepsMember(list[i], type_pokemon_names) THEN <<list[i]>> ELSE <<>>)
         \o FilterByName(list, i + 1, type_pokemon_names)

\* if type_filter:
IsTruthy(type_filter) == type_filter # None /\ type_filter.val # ""

\* paginated_list = list[offset:]; if limit is not None: ...[:limit]
Paginate(list, offset, limit) ==
    LET dropped == SubSeq(list, offset + 1, Len(list))
    IN  IF limit # None THEN SubSeq(dropped, 1, Min(limit.val, Len(dropped)))
        ELSE dropped

\* The pokemon of a set in ascending order of id.
RECURSIVE OrderedById(_)
OrderedById(S) ==
    IF S = {} THEN <<>>
    ELSE LET least == CHOOSE x \in S : \A y \in S : x.id <= y.id
         IN  <<least>> \o OrderedById(S \ {least})

\* A generation record's pokemon_species list.
GenerationSpecies(ps) == [i \in 1..Len(ps) |-> Summary(ps[i], SpeciesPath)]

TypeFilters == {None, Value(""), Value("GRASS")}

InitGen ==
    /\ op = "get_pokemon_by_generation"
    /\ \E limit \in {None} \cup {Value(n) : n \in 0..MaxLimit},
          offset \in 0..MaxOffset, type_filter \in TypeFilters :
           args = [generation_identifier |-> 1, limit |-> limit,
                   offset |-> offset, type_filter |-> type_filter]
    /\ \E ps \in DistinctSeqs(Pokedex, MaxMembers), ts \in SUBSET Pokedex :
           /\ Cardinality(ts) <= MaxTypeMembers
           /\ remote = [generation |->
                            [name |-> "generation-i",
                             pokemon_species |-> GenerationSpecies(ps)],
                        type_members |-> TypeMembers(OrderedById(ts))]
    /\ pc = "called"
    /\ loc = [result |-> None]
    /\ requests = <<>>
    /\ cpc = "calling"
    /\ received = <<>>

\* From the sort to the return, on the list the filter step left.
GenFinish(kept) ==
    LET sorted == SortByUrlId(kept)
    IN  /\ pc' = "returned"
        /\ cpc' = "returned"
        /\ loc' = [kept |-> kept,
                   pokemon_species_list |-> sorted,
                   result |-> Value(Paginate(sorted, args.offset, args.limit))]

\* generation_data = self._make_request(f"generation/...") and, without a
\* type filter, the rest of the method.
GenFetchGeneration ==
    /\ op = "get_pokemon_by_generation"
    /\ pc = "called"
    /\ \E answer \in Answers :
        /\ requests' = Append(requests,
               Get(<<"generation", args.generation_identifier>>, NoneVal, answer))
        /\ IF answer # "ok"
              THEN /\ pc' = "raised"
                   /\ cpc' = "error"
                   /\ loc' = loc
              ELSE LET generation_data == remote.generation
                       pokemon_species_list ==
                           DictGet(generation_data, "pokemon_species", <<>>)
                   IN  IF IsTruthy(args.type_filter)
                          THEN /\ pc' = "generation_fetched"
                               /\ cpc' = cpc
                               /\ loc' = [result |-> None,
                                          pokemon_species_list |->
                                              pokemon_species_list]
                          ELSE GenFinish(pokemon_species_list)
    /\ UNCHANGED <<op, args, remote, received>>

\* type_pokemon_names = {p['name'] for p in find_pokemon_by_type(...)}: the
\* set comprehension drains the generator, which issues its one GET; then
\* the filter and the rest of the method.
GenFetchType ==
    /\ op = "get_pokemon_by_generation"
    /\ pc = "generation_fetched"
    /\ \E answer \in Answers :
        /\ requests' = Append(requests,
               Get(<<"type", Lower(args.type_filter.val)>>, NoneVal, answer))
        /\ IF answer # "ok"
              THEN /\ pc' = "raised"
                   /\ cpc' = "error"
                   /\ loc' = loc
              ELSE LET type_data == TypeResource(Lower(args.type_filter.val))
                       pokemon_list == DictGet(type_data, "pokemon", <<>>)
                       type_pokemon_names ==
                           {YieldedOfEntry(pokemon_list[k]).name :
                                k \in 1..Len(pokemon_list)}
                   IN  GenFinish(FilterByName(loc.pokemon_species_list, 1,
                                            type_pokemon_names))
    /\ UNCHANGED <<op, args, remote, received>>

NextGen ==
    \/ GenFetchGeneration
    \/ GenFetchType

SpecGen == InitGen /\ [][NextGen]_vars

\* ------------------------------------------------------- any one method

Init ==
    \/ InitStream
    \/ InitType
    \/ InitFlavor
    \/ InitEvo
    \/ InitGen

Next ==
    \/ NextStream
    \/ NextType
    \/ NextFlavor
    \/ NextEvo
    \/ NextGen

Spec == Init /\ [][Next]_vars

\* The page the remote holds at the offset of the j-th request.
PageOfRequest(j) ==
    RemotePage(remote.items, requests[j].params.limit,
               requests[j].params.offset).results

LastRequest == requests[Len(requests)]

Ceil(k, l) == (k + l - 1) \div l

\* C1: what the consumer has received is always the first summaries of the
\* remote's list, in the remote's order, and once the generator has
\* returned it is the whole list: count summaries, each exactly once.
C1_StreamYieldsWholeCollection ==
    op = "get_all_resource_generator" =>
        /\ Len(received) <= Len(remote.items)
        /\ received = SubSeq(remote.items, 1, Len(received))
        /\ pc = "done" =>
              /\ received = remote.items
              /\ Cardinality(Range(received)) = Len(remote.items)

C1_Witness ==
    /\ op = "get_all_resource_generator"
    /\ pc = "done"
    /\ Len(remote.items) > 2 * args.limit
    /\ Len(remote.items) % args.limit # 0
    /\ args.limit > 1

\* C2 (safety half): the generator has returned exactly when the last page
\* it fetched came back with empty results.
StreamDoneIffEmptyPage ==
    op = "get_all_resource_generator" =>
        (pc = "done" <=>
            /\ requests # <<>>
            /\ LastRequest.answer = "ok"
            /\ PageOfRequest(Len(requests)) = <<>>)

\* C2: with a consumer that keeps calling next() and a remote whose every
\* answer is a success, the generator returns after finitely many page
\* fetches; it returns exactly when a fetched page is empty.
C2_StreamTerminates ==
    /\ []StreamDoneIffEmptyPage
    /\ <>(pc = "done" \/ pc = "raised" \/ cpc = "stopped")

C2_Witness ==
    /\ op = "get_all_resource_generator"
    /\ pc = "done"
    /\ Len(requests) = Ceil(Len(remote.items), args.limit) + 1
    /\ Len(requests) >= 3

\* C8 (state half): every page was requested only after all summaries of
\* the pages before it had been handed over, and while the consumer holds
\* k >= 1 elements outside next(), ceil(k / limit) pages were requested.
StreamPagesOnDemand ==
    op = "get_all_resource_generator" =>
        /\ \A j \in 1..Len(requests) :
              requests[j].params.offset = (j - 1) * args.limit
        /\ \A j \in 2..Len(requests) :
              Len(received) >= requests[j - 1].params.offset
                                 + Len(PageOfRequest(j - 1))
        /\ (cpc \in {"idle", "stopped"} /\ Len(received) >= 1) =>
              Len(requests) = Ceil(Len(received), args.limit)

\* C8 (step half): a GET is issued only inside next(), and none once the
\* consumer has stopped.
StreamRequestsOnlyInNext ==
    /\ requests' # requests => (cpc = "in_next" /\ Len(requests') = Len(requests) + 1)
    /\ cpc = "stopped" => requests' = requests

\* C8: pages are fetched on demand.
C8_StreamIsLazy ==
    /\ []StreamPagesOnDemand
    /\ [][StreamRequestsOnlyInNext]_vars

C8_Witness ==
    /\ op = "get_all_resource_generator"
    /\ cpc = "stopped"
    /\ args.limit = 3
    /\ Len(received) = 4
    /\ Len(requests) = 2

\* The inner summaries of the member list the remote holds for the type the
\* call names, in the remote's order.
TypeSummaries ==
    LET members == DictGet(TypeResource(Lower(args.type_name)), "pokemon", <<>>)
    IN  [i \in 1..Len(members) |-> members[i].pokemon]

\* C9 as stated: whatever the consumer takes, none included, the call has
\* issued exactly one request by the time the consumer is through with it.
C9_ExactlyOneRequest ==
    (op = "find_pokemon_by_type" /\ cpc \in {"stopped", "exhausted", "error"})
        => Len(requests) = 1

\* C9 amended: no request before the consumer first asks for an element,
\* exactly one from then on however many elements are taken, and the
\* elements are the inner pokemon summaries in the remote's order.
C9_OneRequestOnFirstNext ==
    op = "find_pokemon_by_type" =>
        /\ Len(requests) <= 1
        /\ pc = "created" => Len(requests) = 0
        /\ (pc # "created" /\ cpc # "in_next") => Len(requests) = 1
        /\ Len(received) <= Len(TypeSummaries)
        /\ received = SubSeq(TypeSummaries, 1, Len(received))
        /\ pc = "done" => received = TypeSummaries

C9_Witness ==
    /\ op = "find_pokemon_by_type"
    /\ cpc = "stopped"
    /\ Len(TypeSummaries) = 3
    /\ Len(received) = 2
    /\ Len(requests) = 1

\* The entries of the species record the remote holds.
RemoteFlavorEntries == DictGet(remote.species, "flavor_text_entries", <<>>)

\* The positions of the entries whose language and version are the call's.
MatchingEntries ==
    {i \in 1..Len(RemoteFlavorEntries) :
        /\ RemoteFlavorEntries[i].language.name = args.language
        /\ RemoteFlavorEntries[i].version.name = args.version}

\* t is s with every newline and form feed turned into a space.
IsCleaned(t, s) ==
    /\ Len(t) = Len(s)
    /\ \A j \in 1..Len(s) :
          t[j] = (IF s[j] \in {"\n", "\f"} THEN " " ELSE s[j])
    /\ \A j \in 1..Len(t) : t[j] \notin {"\n", "\f"}

\* C7: a call that returns gives None exactly when no entry matches, and
\* otherwise the text of the first matching entry with newlines and form
\* feeds replaced by spaces.
C7_FlavorTextFirstMatchCleaned ==
    (op = "get_flavor_text" /\ pc = "returned") =>
        IF MatchingEntries = {}
           THEN loc.result = None
           ELSE LET first == CHOOSE i \in MatchingEntries :
                                 \A k \in MatchingEntries : i <= k
                IN  /\ loc.result.kind = "value"
                    /\ IsCleaned(loc.result.val,
                                 RemoteFlavorEntries[first].flavor_text)

C7_Witness ==
    /\ op = "get_flavor_text"
    /\ pc = "returned"
    /\ MatchingEntries = {2, 3}
    /\ loc.result.kind = "value"
    /\ LET raw == RemoteFlavorEntries[2].flavor_text
       IN  "\n" \in Range(raw) /\ "\f" \in Range(raw)

\* Node a is node x or one of its ancestors in the tree par.
RECURSIVE IsAncestorOrSelf(_, _, _)
IsAncestorOrSelf(par, a, x) ==
    IF x = a THEN TRUE
    ELSE IF x = 1 THEN FALSE
    ELSE IsAncestorOrSelf(par, a, par[x])

\* The positions at which node i's name stands in the list r.
PositionsOf(r, i) == {k \in 1..Len(r) : r[k] = SpeciesNames[i]}

\* r lists the tree par in pre-order: every node once, the root first, a
\* node before its children, and the whole subtree of a child before the
\* subtree of any later sibling.
IsPreOrder(r, par) ==
    LET nodes == TreeNodes(par)
        pos(i) == CHOOSE k \in PositionsOf(r, i) : TRUE
    IN  /\ Len(r) = Cardinality(nodes)
        /\ \A i \in nodes : Cardinality(PositionsOf(r, i)) = 1
        /\ r[1] = SpeciesNames[1]
        /\ \A i \in DOMAIN par : pos(par[i]) < pos(i)
        /\ \A a, b \in DOMAIN par :
              (par[a] = par[b] /\ a < b) =>
                  \A x, y \in nodes :
                      (IsAncestorOrSelf(par, a, x) /\ IsAncestorOrSelf(par, b, y))
                          => pos(x) < pos(y)

\* C5: the list a successful call returns is the pre-order listing of the
\* evolution chain's tree.
C5_EvolutionChainPreOrder ==
    (op = "get_evolution_chain" /\ pc = "returned" /\ loc.result # None) =>
        IsPreOrder(loc.result.val, remote.par)

\* A branching tree whose first child has a child of its own.
C5_Witness ==
    /\ op = "get_evolution_chain"
    /\ pc = "returned"
    /\ loc.result # None
    /\ Cardinality(TreeNodes(remote.par)) = 4
    /\ remote.par[2] = 1 /\ remote.par[3] = 1 /\ remote.par[4] = 2
    /\ loc.result.val = <<SpeciesNames[1], SpeciesNames[2], SpeciesNames[4],
                          SpeciesNames[3]>>

\* C6 as stated: None is returned only for a not-found answer to the species
\* lookup, and every other failed request raises.
C6_NoneOnlyForSpeciesNotFound ==
    (op = "get_evolution_chain" /\ requests # <<>>
        /\ LastRequest.answer \in Failures) =>
        IF Len(requests) = 1 /\ LastRequest.answer = "not_found"
           THEN pc = "returned" /\ loc.result = None
           ELSE pc = "raised"

\* The id the remote holds for the pokemon of a name.
IdOfName(name) == (CHOOSE p \in Pokedex : p.name = name).id

IsAscendingById(list) ==
    \A j, k \in 1..Len(list) :
        j < k => IdOfName(list[j].name) < IdOfName(list[k].name)

\* The members in ascending order of the remote's ids: the only ascending
\* list with the elements of the given one.
IsSortingOf(sorted, list) ==
    /\ Len(sorted) = Len(list)
    /\ Range(sorted) = Range(list)
    /\ IsAscendingById(sorted)

\* C3: a call that returns gives the members left by the filter step in
\* ascending order of id, without the first offset of them and cut to limit
\* when a limit is given; so the result is ascending, empty for an offset at
\* or past the end, and empty for a limit of zero.
C3_GenerationSortedThenPaginated ==
    (op = "get_pokemon_by_generation" /\ pc = "returned") =>
        LET result == loc.result.val
            n == Len(loc.kept)
            expected == IF args.offset >= n THEN 0
                        ELSE IF args.limit = None THEN n - args.offset
                        ELSE Min(args.limit.val, n - args.offset)
        IN  \E sorted \in {loc.pokemon_species_list} :
              /\ IsSortingOf(sorted, loc.kept)
              /\ Len(result) = expected
              /\ \A j \in 1..Len(result) : result[j] = sorted[args.offset + j]
              /\ IsAscendingById(result)
              /\ args.offset >= n => result = <<>>
              /\ args.limit = Value(0) => result = <<>>

C3_Witness ==
    /\ op = "get_pokemon_by_generation"
    /\ pc = "returned"
    /\ args.offset = 1
    /\ args.limit = Value(1)
    /\ Len(loc.kept) = 3
    /\ ~IsAscendingById(loc.kept)
    /\ Len(loc.result.val) = 1

\* The names find_pokemon_by_type yields for a type name: those of the inner
\* summaries of the record the remote holds at type/<name in lower case>.
NamesYieldedForType(type_name) ==
    LET members == DictGet(TypeResource(Lower(type_name)), "pokemon", <<>>)
    IN  {members[k].pokemon.name : k \in 1..Len(members)}

GenerationMembers == DictGet(remote.generation, "pokemon_species", <<>>)

\* The list kept holds exactly the generation members with a name in names.
KeepsExactly(kept, names) ==
    /\ Range(kept) = {m \in Range(GenerationMembers) : m.name \in names}
    /\ Len(kept) = Cardinality(Range(kept))

C10_FirstFailureRaises ==
    requests # <<>> =>
        /\ \A j \in 1..(Len(requests) - 1) : requests[j].answer = "ok"
        /\ (/\ LastRequest.answer \in Failures
            /\ ~(/\ op = "get_evolution_chain"
                 /\ Len(requests) = 1
                 /\ LastRequest.answer = "not_found"))
              => pc = "raised"

====
